---- MODULE Spec2Model ----
(***************************************************************************)
(* A model of observable.py: the Observable descriptor (one slot shared by *)
(* every host instance), its two weak-keyed maps, and the register /       *)
(* unregister / set / get operations.                                      *)
(***************************************************************************)
EXTENDS Integers, Sequences, FiniteSets, TLC

\* ------------------------------------------------------------ bounds
\* The number of steps (operations on the slot, reclamations) of a behaviour.
MaxOps == 4

\* ------------------------------------------------------------ universe
\* Host instances (instances of the class that declares the slot).
Hosts == {"h1", "h2"}
\* Objects owning observer methods.
Owners == {"o1", "o2"}
\* Module-level functions usable as observers.
PlainFuncs == {"f"}
\* The method names of the owners' class.
MethodNames == {"m1", "m2"}
\* The functions defined in the owners' class (the __func__ of bound methods),
\* and m1b, a function the program may later install under the name m1.
MethodFuncs == {"m1", "m2", "m1b"}
\* The name under which a function is (or gets) installed in the class.
NameOf(func) == IF func = "m1b" THEN "m1" ELSE func
\* What the program may install in place of a method.
Replacement(name) == IF name = "m1" THEN "m1b" ELSE name
\* Python's None, the result of dict.get(obj, None) on a missing key.
None == "None"
\* Values assigned to the slot.
Values == {None, "5", "6"}
\* The objects the program may drop its last reference to; it keeps h1 and o1
\* for good.
Droppable == {"h2", "o2"}
\* The key under which unbound functions are filed: the Observable class.
ObservableClass == "Observable"
\* The default of getattr(observer, '__self__' / '__func__', default).
NoAttr == "<no attribute>"
NoValue == "<no value>"

\* ------------------------------------------------------------ observers
\* What is passed to register/unregister: a Python object with its
\* callable-ness and its __self__ / __func__ attributes (if any).
Function(f) ==
    [id |-> f, callable |-> TRUE, self |-> NoAttr, func |-> NoAttr]
BoundMethod(o, m) ==
    [id |-> "bound", callable |-> TRUE, self |-> o, func |-> m]
NonCallable ==
    [id |-> "42", callable |-> FALSE, self |-> NoAttr, func |-> NoAttr]
NoObserver ==
    [id |-> "-", callable |-> FALSE, self |-> NoAttr, func |-> NoAttr]
\* The (owner, method name) pairs the program passes: both methods of o1, one
\* of o2.
PassedMethods == (Owners \X MethodNames) \ {<<"o2", "m2">>}
\* The (value set, value an observer sets in turn) pairs of nested sets.
NestedArgs == {<<"5", "6">>, <<"6", None>>}
\* The (target, selector) pairs the program passes to a handle.
SelectorArgs == {<<"o1", "m1">>}

VARIABLES
    classdict,  \* the owners' class: method name -> function
    notify,     \* Observable.notify: the always_notify flag
    previous,   \* Observable.previous: the include_previous flag
    observers,  \* Observable.observers: host -> (key -> set of funcs), weak keys
    value,      \* Observable.value: host -> value, weak keys
    alive,      \* the hosts and owners not yet reclaimed
    last,       \* the last operation, its outcome and the observer calls it made
    nops        \* steps taken so far

vars == <<notify, previous, observers, value, alive, last, nops, classdict>>

\* The attribute access owner.name: a new bound method of the function the
\* class holds under that name now.
GetAttr(o, name) == BoundMethod(o, classdict[name])
\* The bound methods, the callables and the observer arguments the program
\* passes in the current state.
BoundMethods == {GetAttr(pm[1], pm[2]) : pm \in PassedMethods}
Callables == {Function(f) : f \in PlainFuncs} \cup BoundMethods
ObserverArgs == Callables \cup {NonCallable}

\* The record of an operation: what was called, on which host, with which
\* argument, how it ended (err, ret), the observer calls it made and which of
\* them raised (raised, 0 for none) or set the slot again (reenter, 0 for
\* none), whether it repeats a set that has just failed (refail), and what held
\* just before it: the value get would have returned (old), whether the host had
\* a stored value (hadval) and an inner dict (haddict), and whether the observer
\* passed was registered on the host (was).
NoOp ==
    [op |-> "init", host |-> "-", val |-> NoValue, obs |-> NoObserver,
     err |-> "none", ret |-> NoValue, calls |-> <<>>, raised |-> 0,
     reenter |-> 0, refail |-> FALSE,
     old |-> NoValue, hadval |-> FALSE, haddict |-> FALSE, was |-> FALSE]

\* ------------------------------------------------------------ helpers
\* A dict as a function; the empty dict, and d with key k bound to v.
EmptyDict == [x \in {} |-> None]
DictSet(d, k, v) == [x \in DOMAIN d \cup {k} |-> IF x = k THEN v ELSE d[x]]
\* A dict without key k.
DictDel(d, k) == [x \in DOMAIN d \ {k} |-> d[x]]
\* d.get(k, None).
Lookup(d, k) == IF k \in DOMAIN d THEN d[k] ELSE None

\* The inner WeakKeyDictionary keeps insertion order: a sequence of
\* [key, funcs] items.
HasKey(od, k) == \E i \in 1..Len(od) : od[i].key = k
IndexOf(od, k) == CHOOSE i \in 1..Len(od) : od[i].key = k
RemoveAt(s, i) == SubSeq(s, 1, i - 1) \o SubSeq(s, i + 1, Len(s))

\* All orders in which a set can be iterated.
RECURSIVE Orders(_)
Orders(S) ==
    IF S = {} THEN {<<>>}
    ELSE UNION {{<<x>> \o t : t \in Orders(S \ {x})} : x \in S}

\* The (key, func) pairs filed for host h in the registry obs.
ItemPairs(od, i) == {<<od[i].key, f>> : f \in od[i].funcs}
Registered(obs, h) ==
    IF h \in DOMAIN obs
    THEN UNION {ItemPairs(obs[h], i) : i \in 1..Len(obs[h])}
    ELSE {}
\* The (key, func) pair an observer argument stands for.
PairOf(observer) ==
    <<IF observer.self = NoAttr THEN ObservableClass ELSE observer.self,
      IF observer.func = NoAttr THEN observer.id ELSE observer.func>>

\* ------------------------------------------------------------ Observable
\* Faulty variant: a missing value reads as a private sentinel, not None.
get_value_NoDefault(obj) ==
    IF obj \in DOMAIN value THEN value[obj] ELSE NoValue

get_value(obj) == IF obj \in DOMAIN value THEN value[obj] ELSE None

\* Faulty variant: a new inner dict is installed on every call.
get_observers_dict_Fresh(obs, obj) == DictSet(obs, obj, <<>>)

\* self.observers after get_observers_dict(obj): a missing entry is created.
get_observers_dict(obs, obj) ==
    IF obj \in DOMAIN obs THEN obs ELSE DictSet(obs, obj, <<>>)

\* Faulty variant: every observer is filed by its function alone.
get_key_and_func_ByFunc(observer) ==
    [key  |-> ObservableClass,
     func |-> IF observer.func = NoAttr THEN observer.id ELSE observer.func]

get_key_and_func(observer) ==
    [key  |-> IF observer.self = NoAttr THEN ObservableClass ELSE observer.self,
     func |-> IF observer.func = NoAttr THEN observer.id ELSE observer.func]

\* Faulty variant: only the first item of the inner dict is visited.
observer_methods_FirstItem(od) ==
    IF od = <<>> THEN {<<>>}
    ELSE {[i \in 1..Len(o) |-> [key |-> od[1].key, func |-> o[i]]] :
             o \in Orders(od[1].funcs)}

\* The sequences observer_methods can yield for an inner dict: its items in
\* order, each item's set of funcs in some iteration order.
RECURSIVE observer_methods(_)
observer_methods(od) ==
    IF od = <<>> THEN {<<>>}
    ELSE {[i \in 1..Len(o) |-> [key |-> od[1].key, func |-> o[i]]] \o rest :
             o \in Orders(od[1].funcs), rest \in observer_methods(Tail(od))}

\* Faulty variant: the value is kept per slot, not per host instance.
StoreValue_Shared(val, obj, new) == [x \in DOMAIN val \cup {obj} |-> new]

\* self.value after self.value[obj] = value.
StoreValue(val, obj, new) == DictSet(val, obj, new)

\* Faulty variants: the comparison is dropped; the always_notify flag is ignored.
ShouldNotify_Always(new, old) == TRUE
ShouldNotify_IgnoreFlag(new, old) == new /= old

\* The condition under which __set__ notifies.
ShouldNotify(new, old) == notify \/ new /= old

\* Faulty variant: the previous value is read after the store.
NotifyArgs_AfterStore(new, old) == IF previous THEN <<new, new>> ELSE <<new>>

\* The argument list of a notification.
NotifyArgs(new, old) == IF previous THEN <<new, old>> ELSE <<new>>

Init ==
    /\ notify \in BOOLEAN
    /\ previous \in BOOLEAN
    /\ observers = EmptyDict
    /\ value = EmptyDict
    /\ alive = Hosts \cup Owners
    /\ last = NoOp
    /\ nops = 0
    /\ classdict = [n \in MethodNames |-> n]

Tick == nops < MaxOps /\ nops' = nops + 1

\* Observable.__get__(obj, cls) with obj an instance.
Get(obj) ==
    /\ Tick
    /\ obj \in alive
    /\ last' = [NoOp EXCEPT !.op = "get", !.host = obj, !.ret = get_value(obj),
                            !.hadval = obj \in DOMAIN value]
    /\ UNCHANGED <<notify, previous, observers, value, alive, classdict>>

\* Faulty variant: the pass goes on after an observer raised.
Invoke_Continue(pass, failAt) == pass

\* The observers a pass invokes: all of them, or, when the failAt-th one
\* raises, those up to and including it (the for loop of __set__ is left).
Invoke(pass, failAt) ==
    IF failAt = 0 THEN pass ELSE SubSeq(pass, 1, failAt)

\* The calls made: each invoked method with the argument list, and the value
\* get(host) returns to the observer while it runs (seen).
CallsOf(methods, args, seen) ==
    [i \in 1..Len(methods) |->
        [key |-> methods[i].key, func |-> methods[i].func, args |-> args,
         seen |-> seen]]

\* Faulty variant: the observers run before the store.
ValueAtNotify_BeforeStore(before, stored) == before

\* self.value while the observers run: the store comes before the loop.
ValueAtNotify(before, stored) == stored

\* Faulty variant: a failed pass restores the previous value.
AfterPass_Rollback(before, stored, err) ==
    IF err = "none" THEN stored ELSE before

\* self.value when __set__ returns or raises: the store is not undone.
AfterPass(before, stored, err) == stored

\* Observable.__set__(obj, value): store, then notify when the policy says so.
\* The order in which a set of funcs is iterated and the observer that raises
\* (if any) are chosen freely.
Set(obj, new) ==
    /\ Tick
    /\ obj \in alive
    /\ LET old == get_value(obj)
           stored == StoreValue(value, obj, new)
           refail == /\ last.op = "set" /\ last.host = obj
                     /\ last.val = new /\ last.err /= "none"
       IN IF ShouldNotify(new, old)
          THEN LET obs1 == get_observers_dict(observers, obj)
               IN /\ observers' = obs1
                  /\ \E pass \in observer_methods(obs1[obj]) :
                     \E failAt \in 0..Len(pass) :
                       LET calls == CallsOf(Invoke(pass, failAt),
                                      NotifyArgs(new, old),
                                      Lookup(ValueAtNotify(value, stored), obj))
                           err == IF failAt = 0 THEN "none"
                                  ELSE "ObserverError"
                       IN /\ value' = AfterPass(value, stored, err)
                          /\ last' = [NoOp EXCEPT !.op = "set",
                                         !.host = obj, !.val = new,
                                         !.err = err, !.calls = calls,
                                         !.raised = failAt,
                                         !.old = old, !.refail = refail,
                                         !.hadval = obj \in DOMAIN value,
                                         !.haddict = obj \in DOMAIN observers]
          ELSE /\ value' = stored
               /\ observers' = observers
               /\ last' = [NoOp EXCEPT !.op = "set", !.host = obj,
                              !.val = new, !.old = old, !.refail = refail,
                              !.hadval = obj \in DOMAIN value,
                              !.haddict = obj \in DOMAIN observers]
    /\ UNCHANGED <<notify, previous, alive, classdict>>

\* Faulty variant: the notifications of a nested set are delivered after the
\* pass that is under way.
Interleave_Deferred(before, nested, after) == before \o after \o nested

\* The calls of a pass one of whose observers sets the slot again: the nested
\* __set__ runs inside that observer's call, so its whole pass comes before the
\* rest of the outer pass.
Interleave(before, nested, after) == before \o nested \o after

\* Observable.__set__(obj, v1) during which the k-th observer of the pass, on
\* being notified of v1, assigns v2 to the same slot of the same host (and
\* does not do so when notified of another value). No observer raises.
SetNested(obj, v1, v2) ==
    /\ Tick
    /\ obj \in alive
    /\ v2 /= v1
    /\ LET old == get_value(obj)
           stored1 == StoreValue(value, obj, v1)
           seen1 == Lookup(ValueAtNotify(value, stored1), obj)
           old2 == Lookup(stored1, obj)
           stored2 == StoreValue(stored1, obj, v2)
           seen2 == Lookup(ValueAtNotify(stored1, stored2), obj)
           obs1 == get_observers_dict(observers, obj)
       IN /\ ShouldNotify(v1, old)
          /\ observers' = obs1
          /\ value' = AfterPass(value, AfterPass(stored1, stored2, "none"), "none")
          /\ \E pass \in observer_methods(obs1[obj]) :
             \E k \in 1..Len(pass) :
               LET before == CallsOf(SubSeq(pass, 1, k), NotifyArgs(v1, old),
                                     seen1)
                   nested == IF ShouldNotify(v2, old2)
                             THEN CallsOf(pass, NotifyArgs(v2, old2), seen2)
                             ELSE <<>>
                   after == CallsOf(SubSeq(pass, k + 1, Len(pass)),
                                    NotifyArgs(v1, old), seen2)
               IN last' = [NoOp EXCEPT !.op = "set_nested", !.host = obj,
                              !.val = v1, !.ret = v2, !.reenter = k,
                              !.calls = Interleave(before, nested, after),
                              !.old = old,
                              !.hadval = obj \in DOMAIN value,
                              !.haddict = obj \in DOMAIN observers]
    /\ UNCHANGED <<notify, previous, alive, classdict>>

\* Faulty variant: every registration files a new item.
AddFunc_NewItem(od, key, func) == Append(od, [key |-> key, funcs |-> {func}])

\* observer_dict after observer_dict[key].add(func), or, on KeyError,
\* observer_dict[key] = set([func]).
AddFunc(od, key, func) ==
    IF HasKey(od, key)
    THEN [od EXCEPT ![IndexOf(od, key)].funcs = @ \cup {func}]
    ELSE Append(od, [key |-> key, funcs |-> {func}])

\* Faulty variant: the key's whole item is deleted, whatever func is.
DiscardFunc_DelKey(od, key, func) ==
    IF HasKey(od, key) THEN RemoveAt(od, IndexOf(od, key)) ELSE od

\* observer_dict after key_observer.discard(func) and the deletion of an
\* emptied set; unchanged on KeyError.
DiscardFunc(od, key, func) ==
    IF HasKey(od, key)
    THEN LET i == IndexOf(od, key)
             key_observer == od[i].funcs \ {func}
         IN IF key_observer = {} THEN RemoveAt(od, i)
            ELSE [od EXCEPT ![i].funcs = key_observer]
    ELSE od

\* Faulty variant: the observer is not tested.
IsCallable_Unchecked(observer) == TRUE

\* The callable(observer) test of register.
IsCallable(observer) == observer.callable

\* An observer object the program can hold: a bound method keeps its owner
\* alive.
Holdable(observer) == observer.self = NoAttr \/ observer.self \in alive

\* Faulty variant: one handle per class, bound to the instance kept for good.
Registrar_get_Shared(obj) == [obj |-> "h1"]

\* Registrar.__get__(obj, _cls) on an instance: a new handle holding obj.
Registrar_get(obj) == [obj |-> obj]

\* Register.__call__(observer) on the handle of instance obj:
\* Observable.register(self.obj, observer).
Register(obj, observer) ==
    /\ Tick
    /\ obj \in alive
    /\ Holdable(observer)
    /\ LET host == Registrar_get(obj).obj
       IN IF ~IsCallable(observer)
          THEN /\ last' = [NoOp EXCEPT !.op = "register", !.host = obj,
                              !.obs = observer, !.err = "ValueError",
                              !.haddict = obj \in DOMAIN observers,
                              !.was = PairOf(observer)
                                         \in Registered(observers, obj)]
               /\ observers' = observers
          ELSE LET obs1 == get_observers_dict(observers, host)
                   kf == get_key_and_func(observer)
               IN /\ observers' =
                        [obs1 EXCEPT ![host] = AddFunc(@, kf.key, kf.func)]
                  /\ last' = [NoOp EXCEPT !.op = "register", !.host = obj,
                                 !.obs = observer,
                                 !.haddict = obj \in DOMAIN observers,
                                 !.was = PairOf(observer)
                                            \in Registered(observers, obj)]
    /\ UNCHANGED <<notify, previous, value, alive, classdict>>

\* Unregister.__call__(observer) on the handle of instance obj:
\* Observable.unregister(self.obj, observer).
Unregister(obj, observer) ==
    /\ Tick
    /\ obj \in alive
    /\ Holdable(observer)
    /\ LET host == Registrar_get(obj).obj
           obs1 == get_observers_dict(observers, host)
           kf == get_key_and_func(observer)
       IN observers' = [obs1 EXCEPT ![host] = DiscardFunc(@, kf.key, kf.func)]
    /\ last' = [NoOp EXCEPT !.op = "unregister", !.host = obj,
                   !.obs = observer,
                   !.haddict = obj \in DOMAIN observers,
                   !.was = PairOf(observer) \in Registered(observers, obj)]
    /\ UNCHANGED <<notify, previous, value, alive, classdict>>

\* The positional parameters of Observable.register after obj: observer.
RegisterArity == 1

\* Register.__call__(target, selector) on the handle of instance obj passes
\* both on: Observable.register(self.obj, target, selector). The call does not
\* fit register's signature: Python raises TypeError before register's body
\* runs, and nothing is filed.
RegisterSelector(obj, target, selector) ==
    /\ Tick
    /\ obj \in alive
    /\ target \in alive
    /\ Len(<<target, selector>>) /= RegisterArity
    /\ last' = [NoOp EXCEPT !.op = "register_selector", !.host = obj,
                   !.obs = [id |-> selector, callable |-> FALSE,
                            self |-> target, func |-> NoAttr],
                   !.err = "TypeError",
                   !.haddict = obj \in DOMAIN observers]
    /\ UNCHANGED <<notify, previous, observers, value, alive, classdict>>

\* The program installs another function under a method name of the owners'
\* class; the slot is not involved.
ReplaceMethod(name) ==
    /\ Tick
    /\ classdict[name] /= Replacement(name)
    /\ classdict' = [classdict EXCEPT ![name] = Replacement(name)]
    /\ last' = [NoOp EXCEPT !.op = "replace", !.host = name]
    /\ UNCHANGED <<notify, previous, observers, value, alive>>

\* Faulty variant: the inner dict holds its keys strongly.
DropKey_Strong(od, k) == od

\* An inner dict without the item of a reclaimed key.
RECURSIVE DropKey(_, _)
DropKey(od, k) ==
    IF od = <<>> THEN <<>>
    ELSE IF od[1].key = k THEN DropKey(Tail(od), k)
    ELSE <<od[1]>> \o DropKey(Tail(od), k)

\* A host instance becomes unreachable and is reclaimed: its items leave
\* both WeakKeyDictionary objects.
ReclaimHost(obj) ==
    /\ Tick
    /\ obj \in alive \cap Hosts \cap Droppable
    /\ alive' = alive \ {obj}
    /\ value' = DictDel(value, obj)
    /\ observers' = DictDel(observers, obj)
    /\ last' = [NoOp EXCEPT !.op = "reclaim", !.host = obj,
                   !.hadval = obj \in DOMAIN value,
                   !.haddict = obj \in DOMAIN observers]
    /\ UNCHANGED <<notify, previous, classdict>>

\* An observer's owner becomes unreachable and is reclaimed: its item leaves
\* every inner WeakKeyDictionary.
ReclaimOwner(o) ==
    /\ Tick
    /\ o \in alive \cap Owners \cap Droppable
    /\ alive' = alive \ {o}
    /\ observers' = [h \in DOMAIN observers |-> DropKey(observers[h], o)]
    /\ last' = [NoOp EXCEPT !.op = "reclaim", !.host = o,
                   !.was = \E h \in DOMAIN observers : HasKey(observers[h], o)]
    /\ UNCHANGED <<notify, previous, value, classdict>>

Next ==
    \/ \E obj \in Hosts : Get(obj)
    \/ \E obj \in Hosts, new \in Values : Set(obj, new)
    \/ \E obj \in Hosts, observer \in ObserverArgs : Register(obj, observer)
    \/ \E obj \in Hosts, observer \in ObserverArgs : Unregister(obj, observer)
    \/ \E obj \in Hosts : ReclaimHost(obj)
    \/ \E o \in Owners : ReclaimOwner(o)

\* The operations of the slot on its own.
Spec == Init /\ [][Next]_vars

\* The same with the rest of what a program does with it: observers that set
\* the slot while being notified, handles called with (target, selector), and
\* methods replaced in the owners' class.
NextFull ==
    \/ Next
    \/ \E obj \in Hosts, vs \in NestedArgs : SetNested(obj, vs[1], vs[2])
    \/ \E obj \in Hosts, ts \in SelectorArgs :
          RegisterSelector(obj, ts[1], ts[2])
    \/ \E name \in MethodNames : ReplaceMethod(name)

SpecFull == Init /\ [][NextFull]_vars

\* ------------------------------------------------------------ properties
\* The (key, func) pairs a sequence of calls invoked.
InvokedPairs(calls) == {<<calls[i].key, calls[i].func>> : i \in 1..Len(calls)}
\* calls invoked every pair of R, each exactly once.
CompletePass(calls, R) ==
    InvokedPairs(calls) = R /\ Len(calls) = Cardinality(R)
\* calls invoked pairs of R only, each at most once.
PartialPass(calls, R) ==
    InvokedPairs(calls) \subseteq R /\ Len(calls) = Cardinality(InvokedPairs(calls))
\* The value stored for h, as get reads it (None when nothing is stored).
Stored(val, h) == IF h \in DOMAIN val THEN val[h] ELSE None
\* The step is an operation op (its record is in last').
StepOf(op) == nops' = nops + 1 /\ last'.op = op

\* C1: under the change-only policy a set(host, v) notifies the host's
\* registered observers if and only if v differs from the value stored for the
\* host just before the call (a pass that no observer interrupts invokes each
\* of them once; an unchanged value invokes none); of two successive sets on a
\* host the second notifies exactly when its value differs from the first's.
C1_ChangeOnly ==
    [][(StepOf("set") /\ ~notify) =>
         LET h == last'.host
             v == last'.val
             reg == Registered(observers, h)
         IN /\ v = Stored(value, h) =>
                  last'.calls = <<>> /\ last'.err = "none"
            /\ (v /= Stored(value, h) /\ last'.err = "none") =>
                  CompletePass(last'.calls, reg)
            /\ (v /= Stored(value, h) /\ last'.err /= "none") =>
                  last'.calls /= <<>> /\ PartialPass(last'.calls, reg)
            /\ (last.op = "set" /\ last.host = h /\ v = last.val) =>
                  last'.calls = <<>>
            /\ (last.op = "set" /\ last.host = h /\ v /= last.val
                    /\ last'.err = "none") =>
                  CompletePass(last'.calls, reg)
      ]_vars
\* A second set of the stored value, with observers registered, notified none.
C1_Witness ==
    /\ ~notify /\ last.op = "set" /\ last.hadval /\ last.val = last.old
    /\ last.val /= None
    /\ Registered(observers, last.host) /= {}
    /\ last.calls = <<>>

\* C2 (as claimed): under the change-only policy the first-ever set on a host
\* notifies every registered observer, whatever the value.
C2_FirstSetAlwaysNotifies ==
    [][(StepOf("set") /\ ~notify /\ last'.host \notin DOMAIN value
            /\ last'.err = "none") =>
         CompletePass(last'.calls, Registered(observers, last'.host))
      ]_vars
\* C2 (amended): under the change-only policy the first-ever set on a host
\* notifies every registered observer if and only if the value differs from
\* None, the default get returns for a never-set host; a first set of None is
\* stored and notifies no observer.
C2_FirstSet ==
    [][(StepOf("set") /\ ~notify /\ last'.host \notin DOMAIN value) =>
         LET h == last'.host
             reg == Registered(observers, h)
         IN /\ (last'.val /= None /\ last'.err = "none") =>
                  CompletePass(last'.calls, reg)
            /\ (last'.val /= None /\ last'.err /= "none") =>
                  last'.calls /= <<>> /\ PartialPass(last'.calls, reg)
            /\ last'.val = None => last'.calls = <<>> /\ last'.err = "none"
            /\ h \in DOMAIN value' /\ value'[h] = last'.val
      ]_vars
\* A first-ever set of a value other than None invoked the registered observers.
C2_Witness ==
    /\ ~notify /\ last.op = "set" /\ ~last.hadval /\ last.val /= None
    /\ last.err = "none" /\ last.calls /= <<>>
    /\ CompletePass(last.calls, Registered(observers, last.host))

\* C3: with always_notify every set(host, v) notifies every registered
\* observer of host, equal value or not: a pass that no observer interrupts
\* invokes each of them exactly once.
C3_AlwaysNotify ==
    [][(StepOf("set") /\ notify) =>
         LET reg == Registered(observers, last'.host)
         IN /\ last'.err = "none" => CompletePass(last'.calls, reg)
            /\ last'.err /= "none" =>
                  last'.calls /= <<>> /\ PartialPass(last'.calls, reg)
      ]_vars
\* A set of the value already stored invoked the registered observers.
C3_Witness ==
    /\ notify /\ last.op = "set" /\ last.hadval /\ last.val = last.old
    /\ last.err = "none" /\ last.calls /= <<>>

\* C4: with include_previous every notification carries (new value, previous
\* value), the previous value being the one stored for the host just before
\* the set, None for a never-set host; without it every notification carries
\* the new value alone.
C4_Arguments ==
    [][StepOf("set") =>
         \A i \in 1..Len(last'.calls) :
            last'.calls[i].args =
               IF previous
               THEN <<last'.val, Stored(value, last'.host)>>
               ELSE <<last'.val>>
      ]_vars
\* A set over a stored value delivered (new, previous) with previous /= new.
C4_Witness ==
    /\ previous /\ last.op = "set" /\ last.hadval /\ last.calls /= <<>>
    /\ last.old /= last.val /\ last.old /= None
    /\ last.calls[1].args = <<last.val, last.old>>

\* The number of items of an inner dict that file the pair.
Filed(obs, h, pair) ==
    IF h \in DOMAIN obs
    THEN Cardinality({i \in 1..Len(obs[h]) :
                         obs[h][i].key = pair[1] /\ pair[2] \in obs[h][i].funcs})
    ELSE 0

\* C5: registration is idempotent: after a successful register the observer
\* is filed exactly once on the host, registering an observer that is already
\* registered changes nothing, and a set invokes no observer more than once.
C5_Idempotent ==
    [][/\ (StepOf("register") /\ last'.err = "none") =>
            LET h == last'.host
                pair == PairOf(last'.obs)
            IN /\ Filed(observers', h, pair) = 1
               /\ pair \in Registered(observers, h) => observers' = observers
       /\ StepOf("set") =>
            Len(last'.calls) = Cardinality(InvokedPairs(last'.calls))
      ]_vars
\* An observer was registered again on a host where it already was.
C5_Witness ==
    /\ last.op = "register" /\ last.err = "none" /\ last.was
    /\ Filed(observers, last.host, PairOf(last.obs)) = 1

\* C6: unregistering an observer that is not registered on the host (never
\* registered, already removed, or the host has no registrations at all) does
\* not raise and leaves the stored values and every host's observers as they
\* were.
C6_UnregisterAbsent ==
    [][(StepOf("unregister")
            /\ PairOf(last'.obs) \notin Registered(observers, last'.host)) =>
         /\ last'.err = "none"
         /\ value' = value
         /\ \A h \in Hosts :
               /\ Registered(observers', h) = Registered(observers, h)
               /\ h \in DOMAIN observers => observers'[h] = observers[h]
      ]_vars
\* An observer that is not registered was unregistered from a host that has
\* other observers.
C6_Witness ==
    /\ last.op = "unregister" /\ ~last.was /\ last.err = "none"
    /\ Registered(observers, last.host) /= {}

\* C7: unregister(host, observer) removes exactly that observer from the
\* host's observer set: every other observer of the host, other methods of the
\* same owner included, stays registered, and a set invokes registered
\* observers only.
C7_UnregisterExact ==
    [][/\ StepOf("unregister") =>
            /\ Registered(observers', last'.host) =
                  Registered(observers, last'.host) \ {PairOf(last'.obs)}
            /\ Filed(observers', last'.host, PairOf(last'.obs)) = 0
       /\ StepOf("set") =>
            InvokedPairs(last'.calls) \subseteq Registered(observers', last'.host)
      ]_vars
\* A registered method was unregistered while another method of the same
\* owner stays registered.
C7_Witness ==
    /\ last.op = "unregister" /\ last.was /\ last.obs.self /= NoAttr
    /\ \E m \in MethodFuncs :
          <<last.obs.self, m>> \in Registered(observers, last.host)

\* C8: instance isolation: an operation on one host changes neither the
\* stored value nor the observers of another host, and a set on one host
\* invokes only observers registered on that host.
C8_Isolation ==
    [][(StepOf("set") \/ StepOf("register") \/ StepOf("unregister")
            \/ StepOf("get")) =>
         /\ \A h \in Hosts \ {last'.host} :
               /\ (h \in DOMAIN value') = (h \in DOMAIN value)
               /\ h \in DOMAIN value => value'[h] = value[h]
               /\ (h \in DOMAIN observers') = (h \in DOMAIN observers)
               /\ h \in DOMAIN observers => observers'[h] = observers[h]
         /\ InvokedPairs(last'.calls) \subseteq Registered(observers, last'.host)
      ]_vars
\* A set on one host notified its observers while the other host, which has a
\* different value and an observer of its own, was left alone.
C8_Witness ==
    /\ last.op = "set" /\ last.calls /= <<>>
    /\ \E h \in Hosts \ {last.host} :
          /\ h \in DOMAIN value /\ value[h] /= last.val
          /\ Registered(observers, h) \ Registered(observers, last.host) /= {}

\* C9: when an observer raises during a notification pass the error reaches
\* the caller of set, the observer that raised is the last one invoked, and
\* the observers before it were each invoked exactly once.
C9_AbortOnFailure ==
    [][StepOf("set") =>
         /\ (last'.raised /= 0) = (last'.err = "ObserverError")
         /\ last'.raised /= 0 =>
               /\ last'.raised = Len(last'.calls)
               /\ PartialPass(last'.calls, Registered(observers, last'.host))
      ]_vars
\* The second of three registered observers raised: the third was not invoked.
C9_Witness ==
    /\ last.op = "set" /\ last.err = "ObserverError" /\ last.raised = 2
    /\ Len(last.calls) = 2
    /\ Cardinality(Registered(observers, last.host)) = 3

\* C10: register rejects a non-callable observer at once with ValueError and
\* leaves the slot as it was: no observer and no per-host registry entry is
\* added.
C10_RejectNonCallable ==
    [][(StepOf("register") /\ ~last'.obs.callable) =>
         /\ last'.err = "ValueError"
         /\ observers' = observers
         /\ value' = value
      ]_vars
\* A non-callable was rejected on a host that has no registry entry.
C10_Witness ==
    /\ last.op = "register" /\ ~last.obs.callable /\ last.err = "ValueError"
    /\ last.host \notin DOMAIN observers

\* C11 (as claimed): a method registered as an observer and then replaced in
\* its owner's class by another function of the same name is resolved at call
\* time: every notification of an owner's method invokes the function the
\* class holds under that name now.
C11_Freshness ==
    (last.op = "set" \/ last.op = "set_nested") =>
        \A i \in 1..Len(last.calls) :
            last.calls[i].key \in Owners =>
                last.calls[i].func = classdict[NameOf(last.calls[i].func)]

\* C12 (as claimed): registering through the handle with an owner object and
\* a method name succeeds and files (owner, method) on the host.
C12_SelectorRegistered ==
    last.op = "register_selector" =>
        /\ last.err = "none"
        /\ <<last.obs.self, classdict[last.obs.id]>>
              \in Registered(observers, last.host)

\* C13: once a host is reclaimed neither map holds an item for it, and once
\* an owner is reclaimed its item is gone from every host's observers and no
\* set invokes a method of it; the items of the other hosts and owners stay
\* as they were.
C13_WeakOwnership ==
    [][/\ (StepOf("reclaim") /\ last'.host \in Hosts) =>
            /\ last'.host \notin DOMAIN value'
            /\ last'.host \notin DOMAIN observers'
            /\ \A h \in Hosts \ {last'.host} :
                  /\ (h \in DOMAIN value') = (h \in DOMAIN value)
                  /\ h \in DOMAIN value => value'[h] = value[h]
                  /\ (h \in DOMAIN observers') = (h \in DOMAIN observers)
                  /\ h \in DOMAIN observers => observers'[h] = observers[h]
       /\ (StepOf("reclaim") /\ last'.host \in Owners) =>
            /\ value' = value
            /\ DOMAIN observers' = DOMAIN observers
            /\ \A h \in Hosts :
                  Registered(observers', h) =
                     {p \in Registered(observers, h) : p[1] /= last'.host}
       /\ StepOf("set") =>
            \A i \in 1..Len(last'.calls) :
               last'.calls[i].key \in alive \cup {ObservableClass}
       /\ DOMAIN value' \subseteq alive'
       /\ DOMAIN observers' \subseteq alive'
      ]_vars
\* An owner with a registered method was reclaimed, after a host was, while
\* another observer stays registered.
C13_Witness ==
    /\ last.op = "reclaim" /\ last.host \in Owners /\ last.was
    /\ Hosts \ alive /= {}
    /\ \E h \in Hosts : Registered(observers, h) /= {}

\* C14: a register or unregister made through the handle obtained from host
\* instance H acts on H's observers and leaves the observers of every other
\* instance as they were.
C14_HandleBound ==
    [][(StepOf("register") \/ StepOf("unregister")) =>
         /\ \A h \in Hosts \ {last'.host} :
               /\ (h \in DOMAIN observers') = (h \in DOMAIN observers)
               /\ h \in DOMAIN observers => observers'[h] = observers[h]
         /\ (last'.op = "register" /\ last'.err = "none") =>
               PairOf(last'.obs) \in Registered(observers', last'.host)
         /\ last'.op = "unregister" =>
               PairOf(last'.obs) \notin Registered(observers', last'.host)
      ]_vars
\* An observer was registered through the handle of h2 while h1 has observers
\* of its own, this one not among them.
C14_Witness ==
    /\ last.op = "register" /\ last.host = "h2" /\ last.err = "none"
    /\ PairOf(last.obs) \in Registered(observers, "h2")
    /\ Registered(observers, "h1") /= {}
    /\ PairOf(last.obs) \notin Registered(observers, "h1")

C16_FanOut ==
    [][/\ (StepOf("set") /\ last'.err = "none"
              /\ (notify \/ last'.val /= Stored(value, last'.host))) =>
            /\ CompletePass(last'.calls, Registered(observers, last'.host))
            /\ \A i \in 1..Len(last'.calls) :
                  last'.calls[i].args[1] = last'.val
       /\ (nops' = nops + 1 /\ last'.op \notin {"set", "set_nested"}) =>
            last'.calls = <<>>
      ]_vars
\* A set invoked all three observers of a host, filed under more than one key.
C16_Witness ==
    /\ last.op = "set" /\ last.err = "none" /\ Len(last.calls) = 3
    /\ Cardinality(Registered(observers, last.host)) = 3
    /\ Len(observers[last.host]) >= 2

\* C17: set stores the new value before it invokes any observer: an observer
\* that reads the slot of the host while it is notified gets the new value.
C17_StoreFirst ==
    last.op = "set" =>
        \A i \in 1..Len(last.calls) : last.calls[i].seen = last.val
\* An observer notified of a changed value read the new value.
C17_Witness ==
    /\ last.op = "set" /\ last.calls /= <<>> /\ last.hadval
    /\ last.old /= last.val
    /\ last.calls[1].seen = last.val

\* C18: an observer's failure does not undo the store: after the failed
\* set(host, v) the host's value is v, and under the change-only policy the
\* same set repeated at once notifies no observer.
C18_NoRollback ==
    /\ (last.op = "set" /\ last.err /= "none") =>
          /\ last.host \in DOMAIN value
          /\ value[last.host] = last.val
    /\ (last.op = "set" /\ last.refail /\ ~notify) =>
          last.calls = <<>> /\ last.err = "none"
\* The set that had just failed was repeated on a host with two observers or
\* more, and notified none.
C18_Witness ==
    /\ ~notify /\ last.op = "set" /\ last.refail /\ last.calls = <<>>
    /\ Cardinality(Registered(observers, last.host)) >= 2
    /\ value[last.host] = last.val

\* C19: when an observer notified of set(host, v1) sets v2 /= v1 on the same
\* host, the nested pass delivers v2 to every observer of the host before the
\* outer pass goes on, the outer pass delivers v1 to every observer all the
\* same, and the value stored in the end is v2.
C19_Reentrant ==
    last.op = "set_nested" =>
        LET reg == Registered(observers, last.host)
            n == Cardinality(reg)
            k == last.reenter
            c == last.calls
        IN /\ Len(c) = 2 * n
           /\ k \in 1..n
           /\ CompletePass(SubSeq(c, k + 1, k + n), reg)
           /\ \A i \in (k + 1)..(k + n) : c[i].args[1] = last.ret
           /\ CompletePass(SubSeq(c, 1, k) \o SubSeq(c, k + n + 1, 2 * n), reg)
           /\ \A i \in (1..k) \cup ((k + n + 1)..(2 * n)) :
                 c[i].args[1] = last.val
           /\ value[last.host] = last.ret
\* The first of three observers set the slot again: two observers were still
\* to be notified by the outer pass.
C19_Witness ==
    /\ last.op = "set_nested" /\ last.reenter = 1
    /\ Cardinality(Registered(observers, last.host)) = 3
    /\ Len(last.calls) = 6
    /\ last.calls[6].args[1] = last.val

====
